---------------------------- MODULE Spec2Model ----------------------------
(***************************************************************************)
(* A model of GaiaFunctions.py: the three coordinate transformations       *)
(* equatorial_galactic, equatorial_XYZ and equatorial_UVW.                 *)
(*                                                                         *)
(* Numbers.  A float is modelled as a fixed-point integer with three       *)
(* decimals (1.0 is Scale): degrees are held in millidegrees, radians in   *)
(* milliradians.  Products and quotients round toward zero, which is       *)
(* symmetric in the sign of the operands as IEEE rounding is.  NaN is a    *)
(* value of its own that every operation propagates.                       *)
(*                                                                         *)
(* Arrays.  A numpy value is a record [kind, v]: kind "scalar" is a Python *)
(* float or a 0-d array (np.size 1, no len()), kind "array" is a 1-d array *)
(* or a Python list, kind "none" is an argument left at None.              *)
(***************************************************************************)
EXTENDS Integers, Sequences, FiniteSets, TLC

(***************************************************************************)
(* Fixed-point arithmetic                                                  *)
(***************************************************************************)
Scale == 10^3

NaN == -(2^30)

Abs(a) == IF a = NaN THEN NaN ELSE IF a < 0 THEN -a ELSE a

Sgn(a) == IF a < 0 THEN -1 ELSE IF a > 0 THEN 1 ELSE 0

IsNaN(a) == a = NaN

Add(a, b) == IF a = NaN \/ b = NaN THEN NaN ELSE a + b

Sub(a, b) == IF a = NaN \/ b = NaN THEN NaN ELSE a - b

Neg(a) == IF a = NaN THEN NaN ELSE -a

Mul(a, b) ==
  IF a = NaN \/ b = NaN THEN NaN
  ELSE Sgn(a) * Sgn(b) * ((Abs(a) * Abs(b)) \div Scale)

\* a / b; a zero divisor gives NaN for 0/0 and is not reached otherwise
\* (the only divisor of the program is cos_dec_pol, a non-zero constant).
Div(a, b) ==
  IF a = NaN \/ b = NaN \/ b = 0 THEN NaN
  ELSE Sgn(a) * Sgn(b) * ((Abs(a) * Scale) \div Abs(b))

\* x**2
Sq(a) == Mul(a, a)

\* Python's float % with a positive divisor: the result has the divisor's sign.
Mod(a, m) == IF a = NaN THEN NaN ELSE a % m

RECURSIVE ISqrtBetween(_, _, _)
ISqrtBetween(n, lo, hi) ==
  IF lo >= hi THEN lo
  ELSE LET mid == (lo + hi + 1) \div 2
       IN  IF mid * mid <= n THEN ISqrtBetween(n, mid, hi)
                             ELSE ISqrtBetween(n, lo, mid - 1)

\* np.sqrt: NaN below zero, else the root rounded down.
Sqrt(a) ==
  IF a = NaN \/ a < 0 THEN NaN
  ELSE ISqrtBetween(a * Scale, 0, 46340)

(***************************************************************************)
(* Trigonometry (numpy's radians, degrees, sin, cos, arcsin, arctan2)      *)
(***************************************************************************)
\* pi/2 and pi in milliradians; 180 and 360 degrees in millidegrees.
HalfPi == 1571

Pi == 2 * HalfPi

Deg180 == 180 * Scale

Deg360 == 360 * Scale

\* np.radians
Radians(a) ==
  IF a = NaN THEN NaN ELSE Sgn(a) * ((Abs(a) * Pi) \div Deg180)

\* np.degrees
Degrees(x) ==
  IF x = NaN THEN NaN ELSE Sgn(x) * ((Abs(x) * Deg180) \div Pi)

\* sin on [0, pi/2] by its Taylor series, never above 1.
SinQ(x) ==
  LET x2 == (x * x) \div Scale
      t3 == ((x * x2) \div Scale) \div 6
      t5 == ((t3 * x2) \div Scale) \div 20
      t7 == ((t5 * x2) \div Scale) \div 42
      t9 == ((t7 * x2) \div Scale) \div 72
      s  == x - t3 + t5 - t7 + t9
  IN  IF s > Scale THEN Scale ELSE IF s < 0 THEN 0 ELSE s

\* SinQ, tabulated
SinTable == [x \in 0..HalfPi |-> SinQ(x)]

\* an angle of [0, 2 pi) folded into [0, pi/2]
SinFold(r) ==
  IF r <= HalfPi THEN r
  ELSE IF r <= Pi THEN Pi - r
  ELSE IF r <= Pi + HalfPi THEN r - Pi
  ELSE 2 * Pi - r

\* np.sin of an angle in radians
Sin(x) ==
  IF x = NaN THEN NaN
  ELSE (IF x % (2 * Pi) <= Pi THEN 1 ELSE -1) * SinTable[SinFold(x % (2 * Pi))]

\* np.cos of an angle in radians
Cos(x) == IF x = NaN THEN NaN ELSE Sin(x + HalfPi)

\* The largest angle of lo..hi whose sine is at most g (lo's sine is).
RECURSIVE ArcsinBetween(_, _, _)
ArcsinBetween(g, lo, hi) ==
  IF lo >= hi THEN lo
  ELSE LET mid == (lo + hi + 1) \div 2
       IN  IF SinTable[mid] <= g THEN ArcsinBetween(g, mid, hi)
                             ELSE ArcsinBetween(g, lo, mid - 1)

\* np.arcsin: NaN outside [-1, 1] (no clamping), else an angle of [-pi/2, pi/2].
Arcsin(g) ==
  IF g = NaN \/ g > Scale \/ g < -Scale THEN NaN
  ELSE IF g = Scale THEN HalfPi
  ELSE IF g = -Scale THEN -HalfPi
  ELSE Sgn(g) * ArcsinBetween(Abs(g), 0, HalfPi)

\* The largest angle a of lo..hi with y*cos(a) >= x*sin(a), for y, x >= 0.
RECURSIVE AtanBetween(_, _, _, _)
AtanBetween(y, x, lo, hi) ==
  IF lo >= hi THEN lo
  ELSE LET mid == (lo + hi + 1) \div 2
       IN  IF y * SinTable[HalfPi - mid] >= x * SinTable[mid]
           THEN AtanBetween(y, x, mid, hi)
           ELSE AtanBetween(y, x, lo, mid - 1)

\* np.arctan2(y, x): the angle of the point (x, y), in [-pi, pi].
Arctan2(y, x) ==
  IF y = NaN \/ x = NaN THEN NaN
  ELSE IF x = 0 /\ y = 0 THEN 0
  ELSE IF x = 0 THEN Sgn(y) * HalfPi
  ELSE IF y = 0 THEN (IF x > 0 THEN 0 ELSE Pi)
  ELSE LET a == AtanBetween(Abs(y), Abs(x), 0, HalfPi)
       IN  IF x > 0 THEN Sgn(y) * a ELSE Sgn(y) * (Pi - a)


(***************************************************************************)
(* numpy values: scalars, 1-d arrays, None                                 *)
(***************************************************************************)
None == [kind |-> "none", v |-> <<>>]

Scalar(x) == [kind |-> "scalar", v |-> <<x>>]

Array(s) == [kind |-> "array", v |-> s]

IsNone(a) == a.kind = "none"

\* np.size: the number of elements, 1 for a scalar
Size(a) == Len(a.v)

\* len(a) is defined for an array or a list, and raises TypeError for a scalar
HasLen(a) == a.kind = "array"

\* np.zeros(n)
Zeros(n) == Array([i \in 1..n |-> 0])

\* numpy's broadcasting rule for two operands of at most one dimension
Broadcastable(a, b) ==
  \/ a.kind = "scalar"
  \/ b.kind = "scalar"
  \/ Size(a) = Size(b)
  \/ Size(a) = 1
  \/ Size(b) = 1

BroadcastLen(a, b) ==
  IF a.kind = "scalar" THEN Size(b)
  ELSE IF b.kind = "scalar" THEN Size(a)
  ELSE IF Size(a) = 1 THEN Size(b)
  ELSE Size(a)

At(a, i) == IF Size(a) = 1 THEN a.v[1] ELSE a.v[i]

\* The value of an expression, evaluated once: Only(x, y) for x in {a},
\* y in {b} binds x and y to the operands' values.
Only(S) == CHOOSE r \in S : TRUE

\* the elementwise functions of one argument the program uses
Apply1(op, x) ==
  CASE op = "radians" -> Radians(x)
    [] op = "degrees" -> Degrees(x)
    [] op = "sin"     -> Sin(x)
    [] op = "cos"     -> Cos(x)
    [] op = "arcsin"  -> Arcsin(x)
    [] op = "abs"     -> Abs(x)
    [] op = "neg"     -> Neg(x)
    [] op = "square"  -> Sq(x)
    [] op = "sqrt"    -> Sqrt(x)

\* the elementwise operations of two arguments the program uses
Apply2(op, x, y) ==
  CASE op = "add"     -> Add(x, y)
    [] op = "sub"     -> Sub(x, y)
    [] op = "mul"     -> Mul(x, y)
    [] op = "div"     -> Div(x, y)
    [] op = "arctan2" -> Arctan2(x, y)

\* an elementwise unary function
Map1(op, a) ==
  Only({ [kind |-> x.kind, v |-> [i \in 1..Size(x) |-> Apply1(op, x.v[i])]] :
         x \in {a} })

\* an elementwise binary operation on broadcastable operands
Map2(op, a, b) ==
  Only({ [kind |-> IF x.kind = "scalar" /\ y.kind = "scalar"
                   THEN "scalar" ELSE "array",
          v    |-> [i \in 1..BroadcastLen(x, y) |->
                      Apply2(op, At(x, i), At(y, i))]] :
         x \in {a}, y \in {b} })

VAdd(a, b) == Map2("add", a, b)

VSub(a, b) == Map2("sub", a, b)

VMul(a, b) == Map2("mul", a, b)

VDiv(a, b) == Map2("div", a, b)

VArctan2(a, b) == Map2("arctan2", a, b)

VNeg(a) == Map1("neg", a)

VAbs(a) == Map1("abs", a)

VSq(a) == Map1("square", a)

VSqrt(a) == Map1("sqrt", a)

VDegrees(a) == Map1("degrees", a)

VArcsin(a) == Map1("arcsin", a)

\* np.sin(np.radians(a)) and np.cos(np.radians(a))
SinDeg(a) == Map1("sin", Map1("radians", a))

CosDeg(a) == Map1("cos", Map1("radians", a))

(***************************************************************************)
(* Module constants (GaiaFunctions.py lines 5-17)                          *)
(***************************************************************************)
kappa == 5

ra_pol == 192860

dec_pol == 27128

l_north == 122932

TGAL == << << -55, -873, -484 >>,
           << 494, -445, 747 >>,
           << -868, -198, 456 >> >>

\* the module's globals once the module is imported
Globals ==
  [kappa       |-> kappa,
   ra_pol      |-> ra_pol,
   dec_pol     |-> dec_pol,
   l_north     |-> l_north,
   sin_dec_pol |-> Sin(Radians(dec_pol)),
   cos_dec_pol |-> Cos(Radians(dec_pol)),
   TGAL        |-> TGAL]

(***************************************************************************)
(* State                                                                   *)
(***************************************************************************)
VARIABLES
  globals,  \* the module's global names (kappa, ra_pol, ..., TGAL)
  fn,       \* the function being called, "none" between calls
  args,     \* the caller's objects passed to the call, by parameter name
  pc,       \* the position of the call in the function's body
  loc,      \* the call's local names (the error parameters are rebound)
  result,   \* the tuple returned, <<>> while there is none
  exc,      \* the exception raised, NoExc while there is none
  work      \* the computation steps the call has executed since it began

vars == << globals, fn, args, pc, loc, result, exc, work >>

ArgNames ==
  {"ra", "dec", "pmra", "pmdec", "rv", "dist",
   "pmra_error", "pmdec_error", "rv_error", "dist_error"}

ErrNames == {"pmra_error", "pmdec_error", "rv_error", "dist_error"}

NoArgs == [n \in ArgNames |-> None]

LocNames ==
  ErrNames \cup
  {"gl", "gb", "X", "Y", "Z", "T", "reduced_dist", "reduced_dist_error",
   "U", "V", "W"}

NoLoc == [n \in LocNames |-> None]

\* The parameters a call may rebind start bound to the caller's objects.
BindLoc(a) == [n \in LocNames |-> IF n \in ErrNames THEN a[n] ELSE None]

NoExc == [type |-> "none", at |-> "none"]

\* raise ValueError(...) of a size check
ShapeMismatch == [type |-> "ValueError", at |-> "validate"]

Raise(e) ==
  /\ pc' = "raised"
  /\ exc' = e
  /\ UNCHANGED << globals, fn, args, loc, result, work >>

Init ==
  /\ globals = Globals
  /\ fn = "none"
  /\ args = NoArgs
  /\ pc = "idle"
  /\ loc = NoLoc
  /\ result = << >>
  /\ exc = NoExc
  /\ work = 0

\* A caller calls function f with the objects a.
Call(f, a, start) ==
  /\ pc = "idle"
  /\ fn' = f
  /\ args' = a
  /\ pc' = start
  /\ loc' = BindLoc(a)
  /\ result' = << >>
  /\ exc' = NoExc
  /\ work' = 0
  /\ UNCHANGED globals

\* The call is over: the caller drops the result or the exception.
Finish ==
  /\ pc \in {"returned", "raised"}
  /\ fn' = "none"
  /\ args' = NoArgs
  /\ pc' = "idle"
  /\ loc' = NoLoc
  /\ result' = << >>
  /\ exc' = NoExc
  /\ work' = 0
  /\ UNCHANGED globals

(***************************************************************************)
(* equatorial_galactic(ra, dec)                                            *)
(***************************************************************************)
\* lines 29-31: the size check
GalacticSizesAgree(ra, dec) == Size(dec) = Size(ra)

\* Wrap360 with the modulo left out
Wrap360_NoModulo(gl) == Add(gl, Deg360)

\* line 48: gl = (gl+360.)%(360.)
Wrap360(gl) == Mod(Add(gl, Deg360), Deg360)

\* line 48 on every element
VWrap360(gl) ==
  Only({ [kind |-> x.kind, v |-> [i \in 1..Size(x) |-> Wrap360(x.v[i])]] :
         x \in {gl} })

\* lines 34-38: the sines and cosines of ra - ra_pol and of dec
GalacticTrig(g, ra, dec) ==
  Only({ [sin_ra  |-> SinDeg(ra_m_ra_pol), cos_ra  |-> CosDeg(ra_m_ra_pol),
          sin_dec |-> SinDeg(dec),         cos_dec |-> CosDeg(dec)] :
         ra_m_ra_pol \in {VSub(ra, Scalar(g.ra_pol))} })

\* line 41: gamma = sin_dec_pol*sin_dec + cos_dec_pol*cos_dec*cos_ra
Gamma(g, t) ==
  VAdd(VMul(Scalar(g.sin_dec_pol), t.sin_dec),
       VMul(VMul(Scalar(g.cos_dec_pol), t.cos_dec), t.cos_ra))

\* lines 45-48: x1, x2 and the longitude, wrapped
Longitude(g, t, gamma) ==
  VWrap360(
    VSub(Scalar(g.l_north),
         VDegrees(VArctan2(
           VMul(t.cos_dec, t.sin_ra),
           VDiv(VSub(t.sin_dec, VMul(Scalar(g.sin_dec_pol), gamma)),
                Scalar(g.cos_dec_pol))))))

\* lines 34-48: (gl, gb) of validated ra, dec, from the globals g
GalacticOf(g, ra, dec) ==
  Only({ Only({ [gl |-> Longitude(g, t, gamma),
                 gb |-> VDegrees(VArcsin(gamma))] :
                gamma \in {Gamma(g, t)} }) :
         t \in {GalacticTrig(g, ra, dec)} })

Galactic_Validate ==
  /\ pc = "gal_validate"
  /\ IF GalacticSizesAgree(args.ra, args.dec)
     THEN /\ pc' = "gal_compute"
          /\ UNCHANGED << globals, fn, args, loc, result, exc, work >>
     ELSE Raise(ShapeMismatch)

Galactic_Compute ==
  /\ pc = "gal_compute"
  /\ \E r \in {GalacticOf(globals, args.ra, args.dec)} :
       /\ loc' = [loc EXCEPT !.gl = r.gl, !.gb = r.gb]
       /\ result' = << r.gl, r.gb >>
  /\ work' = work + 1
  /\ pc' = "returned"
  /\ UNCHANGED << globals, fn, args, exc >>

(***************************************************************************)
(* equatorial_XYZ(ra, dec, dist, dist_error=None)                          *)
(***************************************************************************)
\* lines 68-72: the size checks
XYZSizesAgree(a) ==
  /\ Size(a.dec) = Size(a.ra)
  /\ Size(a.dist) = Size(a.ra)
  /\ (~IsNone(a.dist_error) => Size(a.dist_error) = Size(a.ra))

\* lines 77-80, 89, 91, 93: cos_gb*cos_gl, cos_gb*sin_gl, sin_gb
Direction(gl, gb) ==
  Only({ << VMul(cos_gb, CosDeg(gl)), VMul(cos_gb, SinDeg(gl)), SinDeg(gb) >> :
         cos_gb \in {CosDeg(gb)} })

\* lines 82-84: X, Y, Z
Position(d, dist) == << VMul(d[1], dist), VMul(d[2], dist), VMul(d[3], dist) >>

\* AxisError with np.abs left out
AxisError_Signed(direction, dist_error) == VMul(direction, dist_error)

\* lines 90, 92, 94: the error of one coordinate, np.abs(direction * dist_error)
AxisError(direction, dist_error) == VAbs(VMul(direction, dist_error))

\* lines 89-94: EX, EY, EZ
PositionErrors(d, dist_error) ==
  << AxisError(d[1], dist_error), AxisError(d[2], dist_error),
     AxisError(d[3], dist_error) >>

XYZ_Validate ==
  /\ pc = "xyz_validate"
  /\ IF XYZSizesAgree(args)
     THEN /\ pc' = "xyz_galactic"
          /\ UNCHANGED << globals, fn, args, loc, result, exc, work >>
     ELSE Raise(ShapeMismatch)

\* line 75: the call of equatorial_galactic, its own size check included
XYZ_Galactic ==
  /\ pc = "xyz_galactic"
  /\ IF GalacticSizesAgree(args.ra, args.dec)
     THEN \E r \in {GalacticOf(globals, args.ra, args.dec)} :
              /\ loc' = [loc EXCEPT !.gl = r.gl, !.gb = r.gb]
              /\ work' = work + 1
              /\ pc' = "xyz_position"
              /\ UNCHANGED << globals, fn, args, result, exc >>
     ELSE Raise([type |-> "ValueError", at |-> "equatorial_galactic"])

\* lines 77-84
XYZ_Position ==
  /\ pc = "xyz_position"
  /\ \E p \in {Position(Direction(loc.gl, loc.gb), args.dist)} :
       loc' = [loc EXCEPT !.X = p[1], !.Y = p[2], !.Z = p[3]]
  /\ work' = work + 1
  /\ pc' = "xyz_return"
  /\ UNCHANGED << globals, fn, args, result, exc >>

\* XYZ_Return that never takes the branch of the errors
XYZ_Return_WithoutErrors ==
  /\ pc = "xyz_return"
  /\ result' = << loc.X, loc.Y, loc.Z >>
  /\ pc' = "returned"
  /\ UNCHANGED << globals, fn, args, loc, exc, work >>

\* lines 86-97
XYZ_Return ==
  /\ pc = "xyz_return"
  /\ IF ~IsNone(loc.dist_error)
     THEN /\ result' = << loc.X, loc.Y, loc.Z >> \o
                       PositionErrors(Direction(loc.gl, loc.gb), loc.dist_error)
          /\ work' = work + 1
     ELSE /\ result' = << loc.X, loc.Y, loc.Z >>
          /\ work' = work
  /\ pc' = "returned"
  /\ UNCHANGED << globals, fn, args, loc, exc >>

(***************************************************************************)
(* equatorial_UVW(ra, dec, pmra, pmdec, rv, dist, pmra_error=None,         *)
(*                pmdec_error=None, rv_error=None, dist_error=None)        *)
(***************************************************************************)
\* UVWSizesAgree with the checks of the error arrays left out
UVWSizesAgree_PositionalOnly(a) ==
  /\ Size(a.dec) = Size(a.ra)
  /\ Size(a.pmra) = Size(a.ra)
  /\ Size(a.pmdec) = Size(a.ra)
  /\ Size(a.dist) = Size(a.ra)

\* lines 121-131: the size checks (rv is not among them)
UVWSizesAgree(a) ==
  /\ Size(a.dec) = Size(a.ra)
  /\ Size(a.pmra) = Size(a.ra)
  /\ Size(a.pmdec) = Size(a.ra)
  /\ Size(a.dist) = Size(a.ra)
  /\ \A e \in ErrNames : ~IsNone(a[e]) => Size(a[e]) = Size(a.ra)

\* lines 134-137
UVWTrig(ra, dec) ==
  [cos_ra  |-> CosDeg(ra), cos_dec |-> CosDeg(dec),
   sin_ra  |-> SinDeg(ra), sin_dec |-> SinDeg(dec)]

\* lines 138, 141, 144: the coefficient of rv in row r of TGAL
TRadial(g, r, t) ==
  VAdd(VAdd(VMul(VMul(Scalar(g.TGAL[r][1]), t.cos_ra), t.cos_dec),
            VMul(VMul(Scalar(g.TGAL[r][2]), t.sin_ra), t.cos_dec)),
       VMul(Scalar(g.TGAL[r][3]), t.sin_dec))

\* lines 139, 142, 145: the coefficient of pmra
TAlpha(g, r, t) ==
  VAdd(VMul(Scalar(-g.TGAL[r][1]), t.sin_ra),
       VMul(Scalar(g.TGAL[r][2]), t.cos_ra))

\* lines 140, 143, 146: the coefficient of pmdec
TDelta(g, r, t) ==
  VAdd(VSub(VMul(VMul(Scalar(-g.TGAL[r][1]), t.cos_ra), t.sin_dec),
            VMul(VMul(Scalar(g.TGAL[r][2]), t.sin_ra), t.sin_dec)),
       VMul(Scalar(g.TGAL[r][3]), t.cos_dec))

\* lines 134-146: T1..T9, the trigonometry computed once
TMatrix(g, ra, dec) ==
  Only({ [k \in 1..9 |->
            CASE k % 3 = 1 -> TRadial(g, (k + 2) \div 3, t)
              [] k % 3 = 2 -> TAlpha(g, (k + 1) \div 3, t)
              [] k % 3 = 0 -> TDelta(g, k \div 3, t)] :
         t \in {UVWTrig(ra, dec)} })

\* lines 149-152 and 171-174: [kappa*d[i] for i in range(len(d))], a list
Reduced(g, d) == Array([i \in 1..Size(d) |-> Mul(g.kappa, d.v[i])])

\* lines 154-156: the operands of + and * broadcast
VelocityBroadcasts(Tr, Ta, Td, rv, pmra, pmdec, rd) ==
  /\ Broadcastable(Tr, rv)
  /\ Broadcastable(VMul(Tr, rv), VMul(VMul(Ta, pmra), rd))

\* lines 154-156: Tr*rv + Ta*pmra*reduced_dist + Td*pmdec*reduced_dist
Velocity(Tr, Ta, Td, rv, pmra, pmdec, rd) ==
  VAdd(VAdd(VMul(Tr, rv), VMul(VMul(Ta, pmra), rd)),
       VMul(VMul(Td, pmdec), rd))

\* lines 154-156: U, V, W from the rows of the matrix Tm
Velocities(Tm, rv, pmra, pmdec, rd) ==
  [r \in 1..3 |->
     Velocity(Tm[3 * r - 2], Tm[3 * r - 1], Tm[3 * r], rv, pmra, pmdec, rd)]

\* ZeroFilled with np.ones for np.zeros
ZeroFilled_Ones(e, num_stars) ==
  IF IsNone(e) THEN Array([i \in 1..num_stars |-> Scale]) ELSE e

\* lines 163-170: an error left at None becomes np.zeros(num_stars)
ZeroFilled(e, num_stars) == IF IsNone(e) THEN Zeros(num_stars) ELSE e

\* lines 178-179: np.sqrt(a**2 + b**2)
Hypot(a, b) == VSqrt(VAdd(VSq(a), VSq(b)))

\* lines 180-183 and 200: the four terms of an axis and their quadratic sum
ErrorTerms(Tr, T_pm, T_pm_error, e_rv, rd, rde) ==
  VSqrt(VAdd(VAdd(VAdd(VSq(VMul(Tr, e_rv)),
                       VSq(VMul(T_pm_error, rd))),
                  VSq(VMul(T_pm, rde))),
             VSq(VMul(T_pm_error, rde))))

\* AxisErrorBar whose distance terms multiply by reduced_dist
AxisErrorBar_DistanceTermByDistance(Tr, Ta, Td, pmra, pmdec, e_pmra, e_pmdec, e_rv, rd, rde) ==
  Only({ ErrorTerms(Tr, T_pm, T_pm_error, e_rv, rd, rd) :
         T_pm       \in {Hypot(VMul(Ta, pmra), VMul(Td, pmdec))},
         T_pm_error \in {Hypot(VMul(Ta, e_pmra), VMul(Td, e_pmdec))} })

\* lines 178-183 and 200 (185-190 and 201, 192-197 and 202): one axis' error
AxisErrorBar(Tr, Ta, Td, pmra, pmdec, e_pmra, e_pmdec, e_rv, rd, rde) ==
  Only({ ErrorTerms(Tr, T_pm, T_pm_error, e_rv, rd, rde) :
         T_pm       \in {Hypot(VMul(Ta, pmra), VMul(Td, pmdec))},
         T_pm_error \in {Hypot(VMul(Ta, e_pmra), VMul(Td, e_pmdec))} })

\* lines 178-202: EU, EV, EW from the rows of the matrix Tm
ErrorBars(Tm, pmra, pmdec, e_pmra, e_pmdec, e_rv, rd, rde) ==
  [r \in 1..3 |->
     AxisErrorBar(Tm[3 * r - 2], Tm[3 * r - 1], Tm[3 * r],
                  pmra, pmdec, e_pmra, e_pmdec, e_rv, rd, rde)]

\* NoErrorsGiven that looks at dist_error alone
NoErrorsGiven_DistErrorOnly(e) == IsNone(e.dist_error)

\* line 159: no error argument was given
NoErrorsGiven(e) ==
  /\ IsNone(e.pmra_error)
  /\ IsNone(e.pmdec_error)
  /\ IsNone(e.rv_error)
  /\ IsNone(e.dist_error)

UVW_Validate ==
  /\ pc = "uvw_validate"
  /\ IF UVWSizesAgree(args)
     THEN /\ pc' = "uvw_tmatrix"
          /\ UNCHANGED << globals, fn, args, loc, result, exc, work >>
     ELSE Raise(ShapeMismatch)

\* lines 134-146
UVW_TMatrix ==
  /\ pc = "uvw_tmatrix"
  /\ loc' = [loc EXCEPT
       !.T = [kind |-> "matrix", v |-> TMatrix(globals, args.ra, args.dec)]]
  /\ work' = work + 1
  /\ pc' = "uvw_reduced_dist"
  /\ UNCHANGED << globals, fn, args, result, exc >>

\* lines 149-152: range(len(dist)) needs dist to have a length
UVW_ReducedDist ==
  /\ pc = "uvw_reduced_dist"
  /\ IF HasLen(args.dist)
     THEN /\ loc' = [loc EXCEPT !.reduced_dist = Reduced(globals, args.dist)]
          /\ work' = work + 1
          /\ pc' = "uvw_velocity"
          /\ UNCHANGED << globals, fn, args, result, exc >>
     ELSE Raise([type |-> "TypeError", at |-> "reduced_dist"])

\* T1..T9 of the call
T(k) == loc.T.v[k]

\* lines 154-160
UVW_Velocity ==
  /\ pc = "uvw_velocity"
  /\ IF VelocityBroadcasts(T(1), T(2), T(3), args.rv, args.pmra, args.pmdec,
                           loc.reduced_dist)
     THEN \E vel \in {Velocities(loc.T.v, args.rv, args.pmra, args.pmdec,
                                 loc.reduced_dist)} :
              /\ loc' = [loc EXCEPT !.U = vel[1], !.V = vel[2], !.W = vel[3]]
              /\ work' = work + 1
              /\ IF NoErrorsGiven(loc)
                 THEN /\ result' = << vel[1], vel[2], vel[3] >>
                      /\ pc' = "returned"
                 ELSE /\ result' = result
                      /\ pc' = "uvw_fill_errors"
              /\ UNCHANGED << globals, fn, args, exc >>
     ELSE Raise([type |-> "ValueError", at |-> "broadcast"])

\* lines 163-170
UVW_FillErrors ==
  /\ pc = "uvw_fill_errors"
  /\ loc' = [n \in LocNames |->
              IF n \in ErrNames THEN ZeroFilled(loc[n], Size(args.ra))
                                ELSE loc[n]]
  /\ pc' = "uvw_reduced_dist_error"
  /\ UNCHANGED << globals, fn, args, result, exc, work >>

\* UVW_ReducedDistError that scales dist_error in place, in the object the
\* name is bound to
UVW_ReducedDistError_InPlace ==
  /\ pc = "uvw_reduced_dist_error"
  /\ IF HasLen(loc.dist_error)
     THEN /\ loc' = [loc EXCEPT
                 !.dist_error = Reduced(globals, loc.dist_error),
                 !.reduced_dist_error = Reduced(globals, loc.dist_error)]
          /\ args' = [args EXCEPT
                 !.dist_error = IF IsNone(args.dist_error) THEN None
                                ELSE Reduced(globals, args.dist_error)]
          /\ work' = work + 1
          /\ pc' = "uvw_errors"
          /\ UNCHANGED << globals, fn, result, exc >>
     ELSE Raise([type |-> "TypeError", at |-> "reduced_dist_error"])

\* lines 171-174: range(len(dist_error)) needs dist_error to have a length
UVW_ReducedDistError ==
  /\ pc = "uvw_reduced_dist_error"
  /\ IF HasLen(loc.dist_error)
     THEN /\ loc' = [loc EXCEPT
                 !.reduced_dist_error = Reduced(globals, loc.dist_error)]
          /\ work' = work + 1
          /\ pc' = "uvw_errors"
          /\ UNCHANGED << globals, fn, args, result, exc >>
     ELSE Raise([type |-> "TypeError", at |-> "reduced_dist_error"])

\* lines 178-205
UVW_Errors ==
  /\ pc = "uvw_errors"
  /\ \E e \in {ErrorBars(loc.T.v, args.pmra, args.pmdec,
                         loc.pmra_error, loc.pmdec_error, loc.rv_error,
                         loc.reduced_dist, loc.reduced_dist_error)} :
       result' = << loc.U, loc.V, loc.W, e[1], e[2], e[3] >>
  /\ work' = work + 1
  /\ pc' = "returned"
  /\ UNCHANGED << globals, fn, args, loc, exc >>

(***************************************************************************)
(* What a call that completes returns, as a function of the globals and    *)
(* the caller's arguments                                                  *)
(***************************************************************************)
\* equatorial_galactic, lines 34-52
GalacticReturn(g, a) ==
  Only({ << r.gl, r.gb >> : r \in {GalacticOf(g, a.ra, a.dec)} })

\* equatorial_XYZ, lines 77-97, from the (gl, gb) of line 75
XYZReturnFrom(d, a) ==
  IF IsNone(a.dist_error) THEN Position(d, a.dist)
  ELSE Position(d, a.dist) \o PositionErrors(d, a.dist_error)

\* equatorial_XYZ, lines 75-97
XYZReturn(g, a) ==
  Only({ Only({ XYZReturnFrom(d, a) : d \in {Direction(r.gl, r.gb)} }) :
         r \in {GalacticOf(g, a.ra, a.dec)} })

\* equatorial_UVW, lines 154-205, from T1..T9 and reduced_dist
UVWReturnFrom(g, a, Tm, rd) ==
  IF NoErrorsGiven(a)
  THEN Only({ << vel[1], vel[2], vel[3] >> :
              vel \in {Velocities(Tm, a.rv, a.pmra, a.pmdec, rd)} })
  ELSE Only({ << vel[1], vel[2], vel[3], e[1], e[2], e[3] >> :
              vel \in {Velocities(Tm, a.rv, a.pmra, a.pmdec, rd)},
              e \in {ErrorBars(Tm, a.pmra, a.pmdec,
                               ZeroFilled(a.pmra_error, Size(a.ra)),
                               ZeroFilled(a.pmdec_error, Size(a.ra)),
                               ZeroFilled(a.rv_error, Size(a.ra)),
                               rd,
                               Reduced(g, ZeroFilled(a.dist_error, Size(a.ra))))} })

\* equatorial_UVW, lines 134-205
UVWReturn(g, a) ==
  Only({ UVWReturnFrom(g, a, Tm, rd) :
         Tm \in {TMatrix(g, a.ra, a.dec)}, rd \in {Reduced(g, a.dist)} })

(***************************************************************************)
(* Callers' inputs                                                         *)
(***************************************************************************)
\* the longest array a caller passes
MaxLen == 2

\* A scalar, or a 1-d array of 0..MaxLen elements.
Shapes ==
  {[kind |-> "scalar", n |-> 1]} \cup
  {[kind |-> "array", n |-> k] : k \in 0..MaxLen}

\* Star i of a fixed catalogue: the value of each measurement.
Catalogue(name, i) ==
  CASE name = "ra"          -> (77000 * i) % Deg360
    [] name = "dec"         -> ((50000 * i) % Deg180) - 90000
    [] name = "pmra"        -> 1000 * i - 2000
    [] name = "pmdec"       -> 3000 - 1000 * i
    [] name = "rv"          -> 2000 * i - 3000
    [] name = "dist"        -> 10000 * i
    [] name = "pmra_error"  -> 100 * i
    [] name = "pmdec_error" -> 200 * i
    [] name = "rv_error"    -> 300 * i
    [] name = "dist_error"  -> 1000 * i

\* The shape of an argument left out.
Absent == [kind |-> "none", n |-> 0]

\* The measurement `name` of the catalogue's first stars, in shape sh.
FromCatalogue(name, sh) ==
  [kind |-> sh.kind, v |-> [i \in 1..sh.n |-> Catalogue(name, i)]]

\* As FromCatalogue(name, array of n), with the first star's value set to x.
WithFirst(name, n, x) ==
  Array([i \in 1..n |-> IF i = 1 THEN x ELSE Catalogue(name, i)])

\* --- calls whose arguments vary in shape ---
CallGalactic ==
  /\ pc = "idle"
  /\ \E s \in [{"ra", "dec"} -> Shapes] :
    Call("equatorial_galactic",
         [n \in ArgNames |->
            IF n \in DOMAIN s THEN FromCatalogue(n, s[n]) ELSE None],
         "gal_validate")

CallXYZ ==
  /\ pc = "idle"
  /\ \E s \in [{"ra", "dec", "dist"} -> Shapes],
     e \in Shapes \cup {Absent} :
    Call("equatorial_XYZ",
         [n \in ArgNames |->
            IF n \in DOMAIN s THEN FromCatalogue(n, s[n])
            ELSE IF n = "dist_error" THEN FromCatalogue(n, e)
            ELSE None],
         "xyz_validate")

\* ra has shape base; every other argument has shape base or shape alt, and
\* an error argument may be left out.
CallUVW ==
  /\ pc = "idle"
  /\ \E base \in Shapes, alt \in Shapes,
     p \in [{"dec", "pmra", "pmdec", "rv", "dist"} -> {"base", "alt"}],
     e \in [ErrNames -> {"base", "alt", "none"}] :
    LET Shape(c) == IF c = "base" THEN base ELSE IF c = "alt" THEN alt ELSE Absent
    IN  Call("equatorial_UVW",
             [n \in ArgNames |->
                IF n = "ra" THEN FromCatalogue(n, base)
                ELSE IF n \in DOMAIN p THEN FromCatalogue(n, Shape(p[n]))
                ELSE FromCatalogue(n, Shape(e[n]))],
             "uvw_validate")

\* --- calls on arrays of one length whose first star's values vary ---
RaValues == {0, 192860, 230000, 282860, 330000}

DecValues == {-90000, -27128, 0, 27128, 60000}

DistValues == {0, 10000, 25000}

DistErrorValues == {-2000, 0, 3000}

PmValues == {-3000, 2000}

RvValues == {-4000}

ErrorValues == {0, 500}

CallGalacticValues ==
  /\ pc = "idle"
  /\ \E n \in 1..MaxLen, ra \in RaValues, dec \in DecValues :
    Call("equatorial_galactic",
         [NoArgs EXCEPT !.ra = WithFirst("ra", n, ra),
                        !.dec = WithFirst("dec", n, dec)],
         "gal_validate")

CallXYZValues ==
  /\ pc = "idle"
  /\ \E n \in 1..MaxLen, ra \in RaValues, dec \in DecValues,
     dist \in DistValues, de \in DistErrorValues \cup {NaN} :
    Call("equatorial_XYZ",
         [NoArgs EXCEPT !.ra = WithFirst("ra", n, ra),
                        !.dec = WithFirst("dec", n, dec),
                        !.dist = WithFirst("dist", n, dist),
                        !.dist_error =
                           IF de = NaN THEN None
                           ELSE WithFirst("dist_error", n, de)],
         "xyz_validate")

CallUVWValues ==
  /\ pc = "idle"
  /\ \E n \in 1..MaxLen, ra \in {0, 282860}, dec \in {-27128, 60000},
     pmra \in PmValues, pmdec \in PmValues, rv \in RvValues,
     dist \in {0, 25000},
     e \in [ErrNames -> ErrorValues \cup {NaN}] :
    Call("equatorial_UVW",
         [n2 \in ArgNames |->
            CASE n2 = "ra"    -> WithFirst(n2, n, ra)
              [] n2 = "dec"   -> WithFirst(n2, n, dec)
              [] n2 = "pmra"  -> WithFirst(n2, n, pmra)
              [] n2 = "pmdec" -> WithFirst(n2, n, pmdec)
              [] n2 = "rv"    -> WithFirst(n2, n, rv)
              [] n2 = "dist"  -> WithFirst(n2, n, dist)
              [] OTHER -> IF e[n2] = NaN THEN None
                          ELSE Array([i \in 1..n |-> e[n2]])],
         "uvw_validate")

(***************************************************************************)
(* Specifications                                                          *)
(***************************************************************************)
Step ==
  \/ Galactic_Validate
  \/ Galactic_Compute
  \/ XYZ_Validate
  \/ XYZ_Galactic
  \/ XYZ_Position
  \/ XYZ_Return
  \/ UVW_Validate
  \/ UVW_TMatrix
  \/ UVW_ReducedDist
  \/ UVW_Velocity
  \/ UVW_FillErrors
  \/ UVW_ReducedDistError
  \/ UVW_Errors
  \/ Finish

\* callers pass arguments of every shape
Next == CallGalactic \/ CallXYZ \/ CallUVW \/ Step

Spec == Init /\ [][Next]_vars

\* callers pass arrays of one length, with varying values
NextValues == CallGalacticValues \/ CallXYZValues \/ CallUVWValues \/ Step

SpecValues == Init /\ [][NextValues]_vars

(***************************************************************************)
(* Properties                                                              *)
(***************************************************************************)
Validating == pc \in {"gal_validate", "xyz_validate", "uvw_validate"}

InCall == pc # "idle"

Supplied(n) == ~IsNone(args[n])

SameSize(n) == Size(args[n]) = Size(args.ra)

AllZero(a) == \A i \in 1..Size(a) : a.v[i] = 0

\* a size disagreement among the arguments the function's checks name
ListedMismatch ==
  \/ /\ fn = "equatorial_galactic"
     /\ ~SameSize("dec")
  \/ /\ fn = "equatorial_XYZ"
     /\ \/ ~SameSize("dec")
        \/ ~SameSize("dist")
        \/ Supplied("dist_error") /\ ~SameSize("dist_error")
  \/ /\ fn = "equatorial_UVW"
     /\ \/ \E n \in {"dec", "pmra", "pmdec", "dist"} : ~SameSize(n)
        \/ \E n \in ErrNames : Supplied(n) /\ ~SameSize(n)

\* C1: in all three functions a size disagreement of a checked argument (or
\* of a supplied error array) makes the call raise the size error in its
\* first step, before any trigonometric or arithmetic step has run, with
\* no result and no local computed.
C1_ValidationFirst ==
  (InCall /\ ~Validating /\ ListedMismatch) =>
    /\ pc = "raised"
    /\ exc = ShapeMismatch
    /\ work = 0
    /\ result = << >>
    /\ loc = BindLoc(args)

\* A call of equatorial_UVW whose only disagreement is a supplied error
\* array has raised the size error.
C1_Witness ==
  /\ fn = "equatorial_UVW"
  /\ pc = "raised"
  /\ exc = ShapeMismatch
  /\ \A n \in {"dec", "pmra", "pmdec", "rv", "dist"} : SameSize(n)
  /\ Supplied("rv_error") /\ ~SameSize("rv_error")
  /\ Size(args.ra) = 2

\* C2: a call of equatorial_UVW returns a result only when all six
\* positional arrays, rv included, have the same length.
C2_NoSilentBroadcast ==
  (fn = "equatorial_UVW" /\ pc = "returned") =>
    \A n \in {"dec", "pmra", "pmdec", "rv", "dist"} : SameSize(n)

\* C3: with ra, dec, dist of one length N, equatorial_XYZ returns exactly
\* (X, Y, Z) without dist_error, exactly (X, Y, Z, EX, EY, EZ) with a
\* dist_error of length N, and raises the size error, returning nothing,
\* with a dist_error of another length.
C3_XYZReturnShape ==
  (/\ fn = "equatorial_XYZ"
   /\ SameSize("dec")
   /\ SameSize("dist")) =>
    /\ (Supplied("dist_error") /\ ~SameSize("dist_error") /\ ~Validating) =>
         (pc = "raised" /\ exc = ShapeMismatch /\ result = << >>)
    /\ (~Supplied("dist_error") \/ SameSize("dist_error")) => pc # "raised"
    /\ (pc = "returned" /\ ~Supplied("dist_error")) =>
         result = << loc.X, loc.Y, loc.Z >>
    /\ (pc = "returned" /\ Supplied("dist_error")) =>
         /\ Len(result) = 6
         /\ SubSeq(result, 1, 3) = << loc.X, loc.Y, loc.Z >>
         /\ \A k \in 4..6 : Size(result[k]) = Size(args.ra)

\* equatorial_XYZ has returned six arrays of two stars.
C3_Witness ==
  /\ fn = "equatorial_XYZ"
  /\ pc = "returned"
  /\ Supplied("dist_error")
  /\ Len(result) = 6
  /\ Size(args.ra) = 2
  /\ args.ra.kind = "array"

\* the positional and the supplied error arguments are 1-d arrays of ra's length
WellShapedArrays ==
  /\ \A n \in {"ra", "dec", "pmra", "pmdec", "rv", "dist"} :
       args[n].kind = "array" /\ SameSize(n)
  /\ \A n \in ErrNames : Supplied(n) => (args[n].kind = "array" /\ SameSize(n))

\* C4: equatorial_UVW returns (U, V, W, EU, EV, EW) exactly when at least
\* one of the four error arrays is supplied and (U, V, W) exactly when
\* none is; with arrays of one length it returns for every subset.
C4_UVWReturnShape ==
  (fn = "equatorial_UVW") =>
    /\ (pc = "returned") =>
         /\ Len(result) = 6 <=> (\E n \in ErrNames : Supplied(n))
         /\ Len(result) = 3 <=> (\A n \in ErrNames : ~Supplied(n))
         /\ SubSeq(result, 1, 3) = << loc.U, loc.V, loc.W >>
    /\ WellShapedArrays => pc # "raised"

\* equatorial_UVW has returned six arrays with rv_error alone supplied.
C4_Witness ==
  /\ fn = "equatorial_UVW"
  /\ pc = "returned"
  /\ WellShapedArrays
  /\ Size(args.ra) = 2
  /\ Supplied("rv_error")
  /\ \A n \in ErrNames \ {"rv_error"} : ~Supplied(n)
  /\ Len(result) = 6

\* C5: a call fails only in its size checks: once they have passed it runs
\* to its return statement.
C5_FailsOnlyInValidation ==
  (pc = "raised") => exc = ShapeMismatch

\* what the call in progress returns, from the imported globals and the
\* caller's arguments alone
ReturnOf ==
  CASE fn = "equatorial_galactic" -> GalacticReturn(Globals, args)
    [] fn = "equatorial_XYZ"      -> XYZReturn(Globals, args)
    [] fn = "equatorial_UVW"      -> UVWReturn(Globals, args)

\* C8: no call has a side effect: the module's globals keep the values of
\* the import, no step of a call (the replacement of absent errors by zero
\* arrays included) changes an object the caller passed, and what a call
\* returns is a function of the globals and the arguments alone, so that a
\* repeated call returns the same.
C8_NoSideEffects ==
  /\ [](globals = Globals)
  /\ [][(pc # "idle" /\ pc' # "idle") => args' = args]_vars
  /\ [](pc = "returned" => result = ReturnOf)

\* equatorial_UVW has returned after binding a zero array to the name of an
\* error the caller left out, whose argument is still None.
C8_Witness ==
  /\ fn = "equatorial_UVW"
  /\ pc = "returned"
  /\ Len(result) = 6
  /\ Size(args.ra) = 2
  /\ ~Supplied("dist_error")
  /\ loc.dist_error = Zeros(2)
  /\ Supplied("pmra_error")
  /\ loc.pmra_error = args.pmra_error

InRange(a, lo, hi) == \A i \in 1..Size(a) : lo <= a.v[i] /\ a.v[i] < hi

\* C6: every Galactic longitude equatorial_galactic computes, returned or
\* handed to equatorial_XYZ, is at least 0 and less than 360 degrees.
C6_LongitudeRange ==
  /\ InRange(loc.gl, 0, Deg360)
  /\ (fn = "equatorial_galactic" /\ pc = "returned") =>
       (Size(result[1]) = Size(args.ra) /\ InRange(result[1], 0, Deg360))

\* equatorial_galactic has returned a longitude above l_north + 180 degrees,
\* which only the wrap of a negative value gives.
C6_Witness ==
  /\ fn = "equatorial_galactic"
  /\ pc = "returned"
  /\ \E i \in 1..Size(result[1]) : result[1].v[i] > l_north + Deg180

\* the error bar of an axis when only the radial term contributes
RadialOnly(Tr, e_rv) == VSqrt(VSq(VMul(Tr, e_rv)))

\* C7: when pmra_error, pmdec_error and dist_error are all zero, each of EU,
\* EV, EW is the magnitude of its radial term T1*rv_error, T4*rv_error,
\* T7*rv_error alone, whatever pmra, pmdec and dist are; with rv_error zero
\* too, EU = EV = EW = 0 for every star.
C7_RadialTermOnly ==
  (/\ fn = "equatorial_UVW"
   /\ pc = "returned"
   /\ Len(result) = 6
   /\ AllZero(loc.pmra_error)
   /\ AllZero(loc.pmdec_error)
   /\ AllZero(loc.dist_error)) =>
    \A r \in 1..3 :
      /\ result[3 + r] = RadialOnly(T(3 * r - 2), loc.rv_error)
      /\ \A i \in 1..Size(result[3 + r]) :
           /\ result[3 + r].v[i] <= Abs(VMul(T(3 * r - 2), loc.rv_error).v[i])
           /\ Sq(result[3 + r].v[i]) <= Sq(VMul(T(3 * r - 2), loc.rv_error).v[i])
      /\ AllZero(loc.rv_error) => AllZero(result[3 + r])

\* equatorial_UVW has returned a positive EU that comes from rv_error alone,
\* for a star with proper motion and distance.
C7_Witness ==
  /\ fn = "equatorial_UVW"
  /\ pc = "returned"
  /\ Len(result) = 6
  /\ Supplied("pmra_error") /\ AllZero(args.pmra_error)
  /\ Supplied("pmdec_error") /\ AllZero(args.pmdec_error)
  /\ Supplied("dist_error") /\ AllZero(args.dist_error)
  /\ Supplied("rv_error")
  /\ args.rv_error.v[1] > 0
  /\ args.pmra.v[1] # 0
  /\ args.dist.v[1] > 0
  /\ result[4].v[1] > 0

\* the caller's arguments with every absent error passed as zeros
WithExplicitZeros(a) ==
  [n \in ArgNames |->
     IF n \in ErrNames /\ IsNone(a[n]) THEN Zeros(Size(a.ra)) ELSE a[n]]

\* C9: when some but not all of the error arrays are supplied, the six
\* arrays equatorial_UVW returns are those of the call that passes every
\* other error explicitly as an all-zero array of length N.
C9_AbsentIsZero ==
  (/\ fn = "equatorial_UVW"
   /\ pc = "returned"
   /\ \E n \in ErrNames : Supplied(n)
   /\ \E n \in ErrNames : ~Supplied(n)) =>
    /\ Len(result) = 6
    /\ result = UVWReturn(globals, WithExplicitZeros(args))

\* equatorial_UVW has returned non-zero error bars with pmra_error alone
\* supplied.
C9_Witness ==
  /\ fn = "equatorial_UVW"
  /\ pc = "returned"
  /\ Supplied("pmra_error")
  /\ \A n \in ErrNames \ {"pmra_error"} : ~Supplied(n)
  /\ args.pmra_error.v[1] > 0
  /\ args.dist.v[1] > 0
  /\ result[4].v[1] > 0

\* the direction cosines of the call's stars (lines 89, 91, 93)
DirectionCosine(k) == Direction(loc.gl, loc.gb)[k]

XYZWithErrors ==
  /\ fn = "equatorial_XYZ"
  /\ pc = "returned"
  /\ Supplied("dist_error")

\* C10 as stated: EX, EY, EZ are the absolute direction cosines times
\* dist_error, for a dist_error of either sign.
C10_ScaledBySignedError ==
  XYZWithErrors =>
    \A k \in 1..3 :
      result[3 + k] = VMul(VAbs(DirectionCosine(k)), args.dist_error)

\* C10 as amended: EX, EY, EZ are the absolute direction cosines times the
\* absolute value of dist_error (so times dist_error when it is not
\* negative), for every star, whatever dist is.
C10_ScaledByAbsoluteError ==
  XYZWithErrors =>
    \A k \in 1..3 :
      /\ result[3 + k] = VMul(VAbs(DirectionCosine(k)), VAbs(args.dist_error))
      /\ \A i \in 1..Size(args.ra) :
           args.dist_error.v[i] >= 0 =>
             result[3 + k].v[i] =
               Mul(Abs(DirectionCosine(k).v[i]), args.dist_error.v[i])

\* equatorial_XYZ has returned a positive EX for a negative dist_error.
C10_Witness ==
  /\ XYZWithErrors
  /\ args.dist_error.v[1] < 0
  /\ result[4].v[1] > 0

=============================================================================
